---- MODULE Spec2Model ----
(***************************************************************************)
(* Model of ace.framework.resource.Resource (demos/hello-layers): the bus  *)
(* connection lifecycle (connect_busses / disconnect_busses on the asyncio *)
(* loop self.bus_loop), the closed-channel retry loops                     *)
(* (try_queue_subscribe, try_get_exchange, publish_message) and the local  *)
(* consumer queues (get_consumer_local_queue and friends).                 *)
(*                                                                         *)
(* Threads are numbered: 0 is the caller thread (the one that calls        *)
(* start_resource, stop_resource, connect_busses, disconnect_busses), and  *)
(* 1..MaxWorkers are the threads connect_busses spawns.                    *)
(***************************************************************************)
EXTENDS Integers, Sequences, FiniteSets, TLC

\* ---------------------------------------------------------------- bounds
\* connect_busses calls (hence spawned threads) explored.
MaxWorkers == 2
\* Public-method calls the caller thread makes.
MaxCalls == 2
\* Attempts of one try_queue_subscribe / try_get_exchange call: the broker
\* stops closing the channel before attempt MaxAttempts.
MaxAttempts == 3
\* Messages pushed to the local consumer queues.
MaxMsgs == 2
\* Length of settings.layers.
MaxLayers == 3
\* Keys of a payload passed to build_message.
MaxFields == 2

Caller == 0
Workers == 1..MaxWorkers
Threads == {Caller} \cup Workers
NoThread == -1
\* The coroutines that use the retry protocol on the bus loop, each making one
\* try_queue_subscribe or publish_message call: two, so that one call can
\* find the channel as another left it, or run between another's awaits.
Tasks == {1, 2}

VARIABLES
    \* --- lifecycle: Resource.__init__ fields and the threads' positions
    pc,          \* pc[t]: the statement thread t is at
    ph,          \* ph[t]: phase inside a run_until_complete / run_forever call
    fut,         \* fut[t]: result of the future t passed to run_until_complete
    cop,         \* the public method the caller thread is inside
    cres,        \* how the caller's last call ended ("none" while none ended)
    werr,        \* werr[w]: the exception that ended worker w
    thread_id,   \* bus_loop._thread_id (NoThread: the loop is not running)
    drivers,     \* threads inside bus_loop.run_forever
    stopping,    \* bus_loop._stopping
    stopQueued,  \* a bus_loop.stop callback posted by call_soon_threadsafe
    connection,  \* self.connection (0: None, else the connection object's id)
    channel,     \* self.channel (0: None, else the channel object's id)
    connOpen,    \* connection objects that are open
    chanOpen,    \* channel objects that are open
    nconn,       \* connection objects created so far
    nchan,       \* channel objects created so far
    carg,        \* the object whose close() coroutine the caller passed to the loop
    api,         \* the ApiEndpoint: "stopped" or "running"
    \* --- lifecycle history (read by the properties only)
    ncalls,      \* public-method calls the caller thread has made
    callerRan,   \* the caller thread has executed a coroutine of the bus loop
    dlog,        \* steps of the current disconnect_busses call, in order
    wlog,        \* wlog[w]: steps of worker w, in order
    dForever,    \* the current disconnect_busses call began while a worker
                 \* was inside run_forever
    \* --- retry protocol: coroutines on the bus loop
    tpc,         \* tpc[k]: the await coroutine k is suspended at
    top,         \* top[k]: the call k makes, "subscribe" (try_queue_subscribe)
                 \* or "publish" (publish_message)
    tres,        \* tres[k]: how k's last call ended ("none" while none ended)
    tq,          \* tq[k]: channel of the queue / exchange object k holds
    consumers,   \* <<k, channel>>: k's callback consumes on that channel
    \* --- retry protocol history (read by the properties only)
    fails,       \* fails[k]: attempts of k's call that ended in a caught exception
    raised,      \* raised[k]: the exception k's current attempt raised inside
                 \* the try block ("none": none so far)
    closedStarts,\* closedStarts[k]: attempts of k's call that began with the
                 \* channel closed
    recreations, \* recreations[k]: self.channel replacements by k's call
    sleeps,      \* sleeps[k]: backoff waits of k's call
    \* --- local consumer queues
    consumer_local_queues, \* self.consumer_local_queues: name -> Queue object (0: no key)
    qcontent,    \* qcontent[i]: the messages in Queue object i, oldest first
    qpc,         \* qpc[t]: the statement thread t is at
    qop,         \* qop[t]: "push" or "drain", the method t is in or was last in
    qname,       \* qname[t]: its queue_name argument
    qmsg,        \* qmsg[t]: its message argument (push)
    qobj,        \* qobj[t]: the Queue object get_consumer_local_queue returned
    qmsgs,       \* qmsgs[t]: the local list messages (drain)
    qret,        \* qret[t]: what t's last drain returned
    nmsg,        \* messages created so far
    \* --- local consumer queue history (read by the properties only)
    pushed,      \* pushed[n]: messages whose push on name n has returned
    returned,    \* returned[n]: messages that drains of name n have returned
    since,       \* since[n]: messages pushed on n since the last drain of n began
    qexp,        \* qexp[t]: since[n] when t's drain began
    snaps,       \* snaps[t]: contents of the queue seen during t's current drain
    qatomic,     \* qatomic[t]: t's last drain returned one of those contents
    \* --- naming scheme: settings.layers and the last call of a naming method
    layers,      \* self.settings.layers
    nop,         \* the naming method called last ("none": none yet)
    ndirection,  \* its direction / orientation argument
    nidx,        \* its idx argument, or the index of its layer argument
    nlayer,      \* its layer argument
    nresult,     \* what it returned
    \* --- message envelope: the last build_message call
    mop,         \* "build_message" once it was called ("none" before)
    mpayload,    \* its message argument: None or a dict (key/value pairs in
                 \* insertion order)
    mtype,       \* its message_type argument
    mresult      \* the bytes it returned

busVars == <<pc, ph, fut, cop, cres, werr, thread_id, drivers, stopping,
             stopQueued, connection, channel, connOpen, chanOpen, nconn,
             nchan, carg, api, ncalls, callerRan, dlog, wlog, dForever>>

retryVars == <<tpc, top, tres, tq, consumers, fails, raised,
               closedStarts, recreations, sleeps>>

queueVars == <<consumer_local_queues, qcontent, qpc, qop, qname, qmsg, qobj,
               qmsgs, qret, nmsg, pushed, returned, since, qexp, snaps, qatomic>>

nameVars == <<layers, nop, ndirection, nidx, nlayer, nresult>>

msgVars == <<mop, mpayload, mtype, mresult>>

pureVars == <<nameVars, msgVars>>

nonBusVars == <<retryVars, queueVars, pureVars>>
nonRetryVars == <<pc, ph, fut, cop, cres, werr, thread_id, drivers, stopping,
                  stopQueued, connection, connOpen, nconn, carg, api, ncalls,
                  callerRan, dlog, wlog, dForever, queueVars, pureVars>>

vars == <<busVars, retryVars, queueVars, pureVars>>

\* ------------------------------------------------------------ lifecycle

\* Resource.__init__: no connection, no channel, a fresh loop, no thread.
BusInit ==
    /\ pc = [t \in Threads |-> IF t = Caller THEN "idle" ELSE "unspawned"]
    /\ ph = [t \in Threads |-> "none"]
    /\ fut = [t \in Threads |-> "none"]
    /\ cop = "none"
    /\ cres = "none"
    /\ werr = [w \in Workers |-> "none"]
    /\ thread_id = NoThread
    /\ drivers = {}
    /\ stopping = FALSE
    /\ stopQueued = FALSE
    /\ connection = 0
    /\ channel = 0
    /\ connOpen = {}
    /\ chanOpen = {}
    /\ nconn = 0
    /\ nchan = 0
    /\ carg = 0
    /\ api = "stopped"
    /\ ncalls = 0
    /\ callerRan = FALSE
    /\ dlog = << >>
    /\ wlog = [w \in Workers |-> << >>]
    /\ dForever = FALSE

\* Statements that hand a coroutine to bus_loop.run_until_complete.
CoroLines == {"get_connection", "post_connect",
              "pre_disconnect", "channel_close", "connection_close"}
\* Statements that drive the loop.
LoopLines == CoroLines \cup {"run_forever"}

\* NextLine with the connection closed before the channel.
NextLineConnectionFirst(line) ==
    CASE line = "get_connection"   -> "post_connect"
      [] line = "post_connect"     -> "run_forever"
      [] line = "run_forever"      -> "returned"
      [] line = "pre_disconnect"   -> "connection_close"
      [] line = "connection_close" -> "channel_close"
      [] line = "channel_close"    -> "loop_stop"

\* NextLine with the loop parked before the post-connect hook has run.
NextLineForeverFirst(line) ==
    CASE line = "get_connection"   -> "run_forever"
      [] line = "run_forever"      -> "post_connect"
      [] line = "post_connect"     -> "returned"
      [] line = "pre_disconnect"   -> "channel_close"
      [] line = "channel_close"    -> "connection_close"
      [] line = "connection_close" -> "loop_stop"

\* The statement after a loop-driving statement that completed.
NextLine(line) ==
    CASE line = "get_connection"   -> "post_connect"
      [] line = "post_connect"     -> "run_forever"
      [] line = "run_forever"      -> "returned"
      [] line = "pre_disconnect"   -> "channel_close"
      [] line = "channel_close"    -> "connection_close"
      [] line = "connection_close" -> "loop_stop"

\* The exception a failing coroutine raises.
CoroError(line) ==
    CASE line = "get_connection"   -> "ConnectError"
      [] line = "post_connect"     -> "HookError"
      [] line = "pre_disconnect"   -> "HookError"
      [] line = "channel_close"    -> "CloseError"
      [] line = "connection_close" -> "CloseError"

\* bus_loop.is_running()
IsRunning == thread_id # NoThread

InForever(w) == pc[w] = "run_forever" /\ ph[w] = "loop"

\* Raise with the failed statement started again instead.
RetryLine(t, err) ==
    /\ pc' = pc
    /\ ph' = [ph EXCEPT ![t] = "check"]
    /\ fut' = [fut EXCEPT ![t] = "none"]
    /\ UNCHANGED <<cop, cres, werr>>

\* An exception leaves thread t's call stack: the caller's public method ends
\* with it (nothing in Resource catches it), a worker thread dies of it.
Raise(t, err) ==
    /\ pc' = [pc EXCEPT ![t] = IF t = Caller THEN "idle" ELSE "dead"]
    /\ ph' = [ph EXCEPT ![t] = "none"]
    /\ fut' = [fut EXCEPT ![t] = "none"]
    /\ cop' = IF t = Caller THEN "none" ELSE cop
    /\ cres' = IF t = Caller THEN err ELSE cres
    /\ werr' = IF t \in Workers THEN [werr EXCEPT ![t] = err] ELSE werr

\* Thread t moves on to statement line.
Goto(t, line) ==
    /\ pc' = [pc EXCEPT ![t] = line]
    /\ ph' = [ph EXCEPT ![t] = IF line \in LoopLines THEN "check" ELSE "none"]
    /\ fut' = [fut EXCEPT ![t] = "none"]
    /\ UNCHANGED <<cop, cres, werr>>

\* The caller's public method returns normally.
Return ==
    /\ pc' = [pc EXCEPT ![Caller] = "idle"]
    /\ ph' = [ph EXCEPT ![Caller] = "none"]
    /\ fut' = [fut EXCEPT ![Caller] = "none"]
    /\ cop' = "none"
    /\ cres' = "ok"
    /\ UNCHANGED werr

CallerIdle == pc[Caller] = "idle"
SomeUnspawned == \E w \in Workers : pc[w] = "unspawned"
\* The thread object the next Thread(...) call creates.
NextWorker == CHOOSE w \in Workers :
                  pc[w] = "unspawned" /\ \A v \in Workers : v < w => pc[v] # "unspawned"

loopVars == <<thread_id, drivers, stopping, stopQueued>>
objVars == <<connection, channel, connOpen, chanOpen, nconn, nchan>>

\* start_resource -> setup_service: entered by the caller thread.
start_resource ==
    /\ CallerIdle /\ SomeUnspawned /\ ncalls < MaxCalls
    /\ ncalls' = ncalls + 1
    /\ pc' = [pc EXCEPT ![Caller] = "start_endpoint"]
    /\ cop' = "start_resource"
    /\ cres' = "none"
    /\ UNCHANGED <<ph, fut, werr, loopVars, objVars, carg, api, callerRan, dlog, wlog, dForever>>
    /\ UNCHANGED nonBusVars

\* setup_service with connect_busses reached while the endpoint is not started.
ConnectBeforeEndpoint ==
    /\ pc[Caller] = "start_endpoint"
    /\ pc' = [pc EXCEPT ![Caller] = "connect_busses"]
    /\ UNCHANGED <<ph, fut, cop, cres, werr, loopVars, objVars, carg, api, ncalls, callerRan, dlog, wlog, dForever>>
    /\ UNCHANGED nonBusVars

\* setup_service: self.api_endpoint.start_endpoint()
StartEndpoint ==
    /\ pc[Caller] = "start_endpoint"
    /\ api' = "running"
    /\ pc' = [pc EXCEPT ![Caller] = "connect_busses"]
    /\ UNCHANGED <<ph, fut, cop, cres, werr, loopVars, objVars, carg, ncalls, callerRan, dlog, wlog, dForever>>
    /\ UNCHANGED nonBusVars

\* connect_busses called directly by the caller thread.
connect_busses ==
    /\ CallerIdle /\ SomeUnspawned /\ ncalls < MaxCalls
    /\ ncalls' = ncalls + 1
    /\ pc' = [pc EXCEPT ![Caller] = "connect_busses"]
    /\ cop' = "connect_busses"
    /\ cres' = "none"
    /\ UNCHANGED <<ph, fut, werr, loopVars, objVars, carg, api, callerRan, dlog, wlog, dForever>>
    /\ UNCHANGED nonBusVars

\* connect_busses: Thread(target=self.connect_busses_in_thread).start(),
\* whatever the state of the resource; the call returns at once.
SpawnThread ==
    /\ pc[Caller] = "connect_busses"
    /\ pc' = [pc EXCEPT ![Caller] = "idle", ![NextWorker] = "get_connection"]
    /\ ph' = [ph EXCEPT ![Caller] = "none", ![NextWorker] = "check"]
    /\ cop' = "none"
    /\ cres' = "ok"
    /\ UNCHANGED <<fut, werr, loopVars, objVars, carg, api, ncalls, callerRan, dlog, wlog, dForever>>
    /\ UNCHANGED nonBusVars

\* disconnect_busses entered (op: the public method the caller called).
EnterDisconnect(op) ==
    /\ CallerIdle /\ ncalls < MaxCalls
    /\ ncalls' = ncalls + 1
    /\ pc' = [pc EXCEPT ![Caller] = "pre_disconnect"]
    /\ ph' = [ph EXCEPT ![Caller] = "check"]
    /\ cop' = op
    /\ cres' = "none"
    /\ dlog' = << >>
    /\ dForever' = (\E w \in Workers : InForever(w))
    /\ UNCHANGED <<fut, werr, loopVars, objVars, carg, api, callerRan, wlog>>
    /\ UNCHANGED nonBusVars

disconnect_busses == EnterDisconnect("disconnect_busses")

\* stop_resource -> shutdown_service -> disconnect_busses
stop_resource == EnterDisconnect("stop_resource")

\* The object a close() coroutine is bound to: the argument of
\* run_until_complete is evaluated before the call.
CloseTarget(line) ==
    CASE line = "channel_close"    -> channel
      [] line = "connection_close" -> connection
      [] OTHER                     -> 0

\* run_until_complete / run_forever, first part: the argument is evaluated
\* (None has no close), then _check_running raises RuntimeError when the loop
\* is running.
RunCheck(t) ==
    /\ pc[t] \in LoopLines /\ ph[t] = "check"
    /\ IF pc[t] \in {"channel_close", "connection_close"} /\ CloseTarget(pc[t]) = 0
       THEN Raise(t, "AttributeError") /\ UNCHANGED carg
       ELSE IF IsRunning
       THEN Raise(t, "RuntimeError") /\ UNCHANGED carg
       ELSE /\ ph' = [ph EXCEPT ![t] = "enter"]
            /\ carg' = IF t = Caller THEN CloseTarget(pc[t]) ELSE carg
            /\ UNCHANGED <<pc, fut, cop, cres, werr>>
    /\ UNCHANGED <<loopVars, objVars, api, ncalls, callerRan, dlog, wlog, dForever>>
    /\ UNCHANGED nonBusVars

\* run_forever begins: _thread_id is set and the thread runs the loop. The
\* check and this store are separate steps, so two threads may both pass.
RunEnter(t) ==
    /\ pc[t] \in LoopLines /\ ph[t] = "enter"
    /\ thread_id' = t
    /\ drivers' = drivers \cup {t}
    /\ ph' = [ph EXCEPT ![t] = IF pc[t] = "run_forever" THEN "loop" ELSE "sched"]
    /\ wlog' = IF pc[t] = "run_forever"
               THEN [wlog EXCEPT ![t] = Append(@, <<"run_forever", "begin">>)] ELSE wlog
    /\ UNCHANGED <<pc, fut, cop, cres, werr, stopping, stopQueued, objVars,
                   carg, api, ncalls, callerRan, dlog, dForever>>
    /\ UNCHANGED nonBusVars

\* The history entry of a step of thread t.
Logged(t, ev) ==
    /\ dlog' = IF t = Caller THEN Append(dlog, ev) ELSE dlog
    /\ wlog' = IF t \in Workers THEN [wlog EXCEPT ![t] = Append(@, ev)] ELSE wlog

\* The coroutine of t's statement starts, on a thread e that drives the loop.
CoroBegin(t, e) ==
    /\ pc[t] \in CoroLines /\ ph[t] = "sched"
    /\ e \in drivers
    /\ ph' = [ph EXCEPT ![t] = "exec"]
    /\ callerRan' = (callerRan \/ e = Caller)
    /\ Logged(t, <<pc[t], "begin">>)
    /\ UNCHANGED <<pc, fut, cop, cres, werr, loopVars, objVars, carg, api, ncalls, dForever>>
    /\ UNCHANGED nonBusVars

\* What the coroutine of statement line does to the broker objects when it
\* succeeds.
CoroEffect(line) ==
    CASE line = "get_connection" ->
            \* get_busses_connection_and_channel: self.connection, self.channel = ...
            /\ nconn' = nconn + 1 /\ nchan' = nchan + 1
            /\ connection' = nconn + 1 /\ channel' = nchan + 1
            /\ connOpen' = connOpen \cup {nconn + 1}
            /\ chanOpen' = chanOpen \cup {nchan + 1}
      [] line = "channel_close" ->
            /\ chanOpen' = chanOpen \ {carg}
            /\ UNCHANGED <<connection, channel, connOpen, nconn, nchan>>
      [] line = "connection_close" ->
            /\ connOpen' = connOpen \ {carg}
            /\ UNCHANGED <<connection, channel, chanOpen, nconn, nchan>>
      [] OTHER -> UNCHANGED objVars

\* The coroutine ends, with a result or an exception; the future's done
\* callback (_run_until_complete_cb) calls bus_loop.stop().
CoroEnd(t, e, ok) ==
    /\ pc[t] \in CoroLines /\ ph[t] = "exec"
    /\ e \in drivers
    /\ ph' = [ph EXCEPT ![t] = "loop"]
    /\ fut' = [fut EXCEPT ![t] = IF ok THEN "ok" ELSE CoroError(pc[t])]
    /\ stopping' = TRUE
    /\ callerRan' = (callerRan \/ e = Caller)
    /\ IF ok THEN CoroEffect(pc[t]) ELSE UNCHANGED objVars
    /\ Logged(t, <<pc[t], IF ok THEN "end" ELSE "fail">>)
    /\ carg' = IF t = Caller THEN 0 ELSE carg
    /\ UNCHANGED <<pc, cop, cres, werr, thread_id, drivers, stopQueued, api, ncalls, dForever>>
    /\ UNCHANGED nonBusVars

\* A posted bus_loop.stop callback runs on a thread that drives the loop.
ProcessStop ==
    /\ stopQueued /\ drivers # {}
    /\ stopping' = TRUE
    /\ stopQueued' = FALSE
    /\ UNCHANGED <<pc, ph, fut, cop, cres, werr, thread_id, drivers, objVars,
                   carg, api, ncalls, callerRan, dlog, wlog, dForever>>
    /\ UNCHANGED nonBusVars

\* run_forever sees _stopping and returns (resetting _stopping, _thread_id).
\* run_until_complete then returns the future's result, raises its exception,
\* or raises RuntimeError when the future is not done.
LoopExit(t) ==
    /\ t \in drivers /\ stopping
    /\ stopping' = FALSE
    /\ thread_id' = NoThread
    /\ drivers' = drivers \ {t}
    /\ IF pc[t] = "run_forever" \/ fut[t] = "ok"
       THEN Goto(t, NextLine(pc[t]))
       ELSE Raise(t, IF fut[t] = "none" THEN "RuntimeError" ELSE fut[t])
    /\ UNCHANGED <<stopQueued, objVars, carg, api, ncalls, callerRan, dlog, wlog, dForever>>
    /\ UNCHANGED nonBusVars

\* disconnect_busses: self.bus_loop.call_soon_threadsafe(self.bus_loop.stop),
\* then it returns; shutdown_service goes on to stop the endpoint.
LoopStop ==
    /\ pc[Caller] = "loop_stop"
    /\ stopQueued' = TRUE
    /\ dlog' = Append(dlog, <<"loop_stop", "end">>)
    /\ IF cop = "stop_resource"
       THEN /\ pc' = [pc EXCEPT ![Caller] = "stop_endpoint"]
            /\ UNCHANGED <<ph, fut, cop, cres, werr>>
       ELSE Return
    /\ UNCHANGED <<thread_id, drivers, stopping, objVars, carg, api, ncalls, callerRan, wlog, dForever>>
    /\ UNCHANGED nonBusVars

\* shutdown_service: self.api_endpoint.stop_endpoint()
StopEndpoint ==
    /\ pc[Caller] = "stop_endpoint"
    /\ api' = "stopped"
    /\ Return
    /\ UNCHANGED <<loopVars, objVars, carg, ncalls, callerRan, dlog, wlog, dForever>>
    /\ UNCHANGED nonBusVars

BusNext ==
    \/ start_resource
    \/ StartEndpoint
    \/ connect_busses
    \/ SpawnThread
    \/ disconnect_busses
    \/ stop_resource
    \/ \E t \in Threads : RunCheck(t)
    \/ \E t \in Threads : RunEnter(t)
    \/ \E t \in Threads, e \in Threads : CoroBegin(t, e)
    \/ \E t \in Threads, e \in Threads, ok \in BOOLEAN : CoroEnd(t, e, ok)
    \/ ProcessStop
    \/ \E t \in Threads : LoopExit(t)
    \/ LoopStop
    \/ StopEndpoint


\* ------------------------------------------------- lifecycle properties

DisconnectLines == {"pre_disconnect", "channel_close", "connection_close", "loop_stop"}

\* The step in which disconnect_busses hands control back to its caller,
\* by returning or by raising.
DisconnectEnds == pc[Caller] \in DisconnectLines /\ pc'[Caller] \notin DisconnectLines

\* The hook and both closes of the current disconnect_busses call are done.
TeardownDone ==
    /\ \E i \in 1..Len(dlog) : dlog[i] = <<"pre_disconnect", "end">>
    /\ \E i \in 1..Len(dlog) : dlog[i] = <<"channel_close", "end">>
    /\ \E i \in 1..Len(dlog) : dlog[i] = <<"connection_close", "end">>

\* C1: a disconnect_busses call that began while a worker was inside
\* run_forever hands control back to its caller only with pre_disconnect, the
\* channel close and the connection close completed.
C1_DisconnectBlocksUntilTeardown ==
    [][(DisconnectEnds /\ dForever) => TeardownDone']_vars

\* C8: once the connection is established, the caller thread never drives the
\* bus loop and never executes a coroutine of it (hook, close): all of that
\* runs on a worker thread.
C8_OnlyWorkerTouchesBus ==
    connection # 0 => (Caller \notin drivers /\ ~callerRan)

\* The teardown steps of disconnect_busses, in the order of the claim.
TeardownOrder ==
    << <<"pre_disconnect", "begin">>,   <<"pre_disconnect", "end">>,
       <<"channel_close", "begin">>,    <<"channel_close", "end">>,
       <<"connection_close", "begin">>, <<"connection_close", "end">>,
       <<"loop_stop", "end">> >>

\* log is a prefix of order, or such a prefix whose last step failed instead
\* of ending.
OrderedPrefix(log, order) ==
    /\ Len(log) <= Len(order)
    /\ \A i \in 1..Len(log) :
          \/ log[i] = order[i]
          \/ /\ i = Len(log)
             /\ order[i][2] = "end"
             /\ log[i] = <<order[i][1], "fail">>

\* C9: disconnect_busses runs pre_disconnect, then closes the channel, then
\* the connection, then requests the loop stop; each step begins only after
\* the one before it has completed, and nothing follows a step that failed.
C9_TeardownOrder ==
    /\ OrderedPrefix(dlog, TeardownOrder)
    /\ (pc[Caller] = "loop_stop" => Len(dlog) = 6)
    /\ (cres \notin {"none", "ok"} /\ CallerIdle => Len(dlog) < 7)

\* C9 witness: a disconnect_busses call went through all of its steps.
C9_Witness == dlog = TeardownOrder

\* The steps of connect_busses_in_thread, in the order of the claim.
WorkerOrder ==
    << <<"get_connection", "begin">>, <<"get_connection", "end">>,
       <<"post_connect", "begin">>,   <<"post_connect", "end">>,
       <<"run_forever", "begin">> >>

C10_Order ==
    \A w \in Workers :
        /\ OrderedPrefix(wlog[w], WorkerOrder)
        /\ (Len(wlog[w]) >= 3 => connection # 0 /\ channel # 0)

C10_RunsUntilStop ==
    \A w \in Workers : (InForever(w) /\ ~InForever(w)') => stopping

\* C10: on a worker thread, post_connect is invoked only after connection and
\* channel are stored, run_forever is entered only after post_connect has
\* completed, and run_forever is left only when a loop stop was requested.
C10_ConnectOrder == []C10_Order /\ [][C10_RunsUntilStop]_vars

\* C10 witness: a worker went through connect, hook and run_forever, and
\* returned from run_forever after a stop.
C10_Witness ==
    \E w \in Workers : pc[w] = "returned" /\ wlog[w] = WorkerOrder

\* Inside start_resource, connect_busses is reached with the endpoint started.
C11_EndpointFirst ==
    (cop = "start_resource" /\ pc[Caller] = "connect_busses") => api = "running"

\* The step in which start_resource returns is the start of the thread: the
\* thread has not begun, connection and channel are as they were.
C11_NoWait ==
    (cop = "start_resource" /\ cop' = "none") =>
        /\ cres' = "ok"
        /\ UNCHANGED <<connection, channel, nconn, nchan>>
        /\ \E w \in Workers :
              pc[w] = "unspawned" /\ pc'[w] = "get_connection" /\ ph'[w] = "check"

\* Inside stop_resource, the endpoint changes only after disconnect_busses
\* has gone through all of its steps and returned.
C11_DisconnectFirst ==
    (cop = "stop_resource" /\ api' # api) =>
        /\ pc[Caller] = "stop_endpoint"
        /\ dlog = TeardownOrder
        /\ api' = "stopped"

\* C11: start_resource starts the API endpoint before it triggers
\* connect_busses and returns without waiting for the connection;
\* stop_resource calls disconnect_busses before it stops the API endpoint.
C11_ServiceOrder ==
    []C11_EndpointFirst /\ [][C11_NoWait /\ C11_DisconnectFirst]_vars

\* C11 witness: after start_resource (the endpoint runs, a worker was started),
\* stop_resource is back from disconnect_busses and about to stop the endpoint.
C11_Witness ==
    /\ cop = "stop_resource" /\ pc[Caller] = "stop_endpoint"
    /\ api = "running" /\ dlog = TeardownOrder
    /\ \E w \in Workers : pc[w] # "unspawned"

\* The worker threads that exist: started and not yet ended.
LiveWorkers == {w \in Workers : pc[w] \notin {"unspawned", "returned", "dead"}}

\* C12: after any sequence of connect_busses calls at most one worker thread
\* exists, and at most one worker thread drives the event loop.
C12_AtMostOneWorker ==
    /\ Cardinality(LiveWorkers) <= 1
    /\ Cardinality(drivers \cap Workers) <= 1

\* Worker w's get_busses_connection_and_channel has failed.
ConnectFailed(w) ==
    Len(wlog[w]) >= 2 /\ wlog[w][2] = <<"get_connection", "fail">>

\* No worker has stored a connection.
NoneConnected ==
    \A w \in Workers : Len(wlog[w]) >= 2 => ConnectFailed(w)

\* C13: a worker whose initial connection attempt failed has made that one
\* attempt and nothing after it (no second attempt, no post_connect, no
\* run_forever), ends with the connection failure, and did not set connection
\* or channel: they are unset as long as no other worker has connected.
C13_ConnectFailureIsFinal ==
    /\ \A w \in Workers : ConnectFailed(w) =>
          /\ wlog[w] = << <<"get_connection", "begin">>, <<"get_connection", "fail">> >>
          /\ pc[w] \in {"get_connection", "dead"}
          /\ (pc[w] = "dead" => werr[w] = "ConnectError")
    /\ (NoneConnected => connection = 0 /\ channel = 0 /\ nconn = 0 /\ nchan = 0)

\* C13 witness: a worker died of the connection failure, nothing is set.
C13_Witness ==
    \E w \in Workers :
        /\ ConnectFailed(w) /\ pc[w] = "dead" /\ werr[w] = "ConnectError"
        /\ connection = 0 /\ channel = 0

\* The step in which a stop_resource call, made with the endpoint running
\* (that is, after start_resource), hands control back to its caller.
StopResourceEnds == cop = "stop_resource" /\ cop' = "none" /\ api = "running"

\* C20: every stop_resource call issued after start_resource ends normally
\* with the channel closed, the connection closed, the loop stop requested or
\* the loop not running, and the API endpoint stopped.
C20_StopCompletes ==
    [][StopResourceEnds =>
          /\ cres' = "ok"
          /\ chanOpen' = {} /\ connOpen' = {}
          /\ (stopQueued' \/ stopping' \/ ~IsRunning')
          /\ api' = "stopped"]_vars


\* ------------------------------------------------------- retry protocol

\* The state the retry protocol runs in: connect_busses_in_thread has stored
\* an open connection and an open channel, and worker 1 is inside run_forever.
ConnectedInit ==
    /\ pc = [t \in Threads |-> IF t = Caller THEN "idle"
                               ELSE IF t = 1 THEN "run_forever" ELSE "unspawned"]
    /\ ph = [t \in Threads |-> IF t = 1 THEN "loop" ELSE "none"]
    /\ fut = [t \in Threads |-> "none"]
    /\ cop = "none"
    /\ cres = "ok"
    /\ werr = [w \in Workers |-> "none"]
    /\ thread_id = 1
    /\ drivers = {1}
    /\ stopping = FALSE
    /\ stopQueued = FALSE
    /\ connection = 1
    /\ channel = 1
    /\ connOpen = {1}
    /\ chanOpen = {1}
    /\ nconn = 1
    /\ nchan = 1
    /\ carg = 0
    /\ api = "running"
    /\ ncalls = 1
    /\ callerRan = FALSE
    /\ dlog = << >>
    /\ wlog = [w \in Workers |-> IF w = 1 THEN WorkerOrder ELSE << >>]
    /\ dForever = FALSE

\* No coroutine is inside the retry protocol.
RetryInit ==
    /\ tpc = [k \in Tasks |-> "idle"]
    /\ top = [k \in Tasks |-> "none"]
    /\ tres = [k \in Tasks |-> "none"]
    /\ tq = [k \in Tasks |-> 0]
    /\ consumers = {}
    /\ fails = [k \in Tasks |-> 0]
    /\ raised = [k \in Tasks |-> "none"]
    /\ closedStarts = [k \in Tasks |-> 0]
    /\ recreations = [k \in Tasks |-> 0]
    /\ sleeps = [k \in Tasks |-> 0]

\* The except clause with no exception caught.
CaughtNone(exc) == FALSE

\* The except clause with every exception caught.
CaughtAny(exc) == TRUE

\* except (aio_pika.exceptions.ChannelClosed, aio_pika.exceptions.ChannelClosed)
Caught(exc) == exc = "ChannelClosed"

\* The channel test with the channel always taken for closed.
IsClosedAlways(ch) == TRUE

\* self.channel.is_closed
IsClosed(ch) == ch \notin chanOpen

\* What the broker can answer to an operation on channel ch: success only on
\* an open channel; ChannelClosed (the broker closes the channel, e.g. the
\* queue is not declared yet) while the attempt bound allows another
\* attempt; any other failure.
Outcomes(k, ch) ==
    (IF ch \in chanOpen THEN {"ok"} ELSE {})
    \cup (IF fails[k] + 1 < MaxAttempts THEN {"ChannelClosed"} ELSE {})
    \cup {"OtherError"}

\* The exception exc leaves the try block of k's attempt: caught, it is
\* counted and the backoff sleep begins; otherwise it propagates to the caller.
Handle(k, exc) ==
    /\ raised' = [raised EXCEPT ![k] = exc]
    /\ IF Caught(exc)
       THEN /\ tpc' = [tpc EXCEPT ![k] = "sleep"]
            /\ fails' = [fails EXCEPT ![k] = @ + 1]
            /\ UNCHANGED <<top, tres>>
       ELSE /\ tpc' = [tpc EXCEPT ![k] = "done"]
            /\ tres' = [tres EXCEPT ![k] = exc]
            /\ UNCHANGED <<top, fails>>

\* A coroutine calls try_queue_subscribe, or publish_message (which begins
\* with try_get_exchange).
Call(k, op) ==
    /\ tpc[k] = "idle"
    /\ tpc' = [tpc EXCEPT ![k] = "top"]
    /\ top' = [top EXCEPT ![k] = op]
    /\ tres' = [tres EXCEPT ![k] = "none"]
    /\ fails' = [fails EXCEPT ![k] = 0]
    /\ raised' = [raised EXCEPT ![k] = "none"]
    /\ closedStarts' = [closedStarts EXCEPT ![k] = 0]
    /\ recreations' = [recreations EXCEPT ![k] = 0]
    /\ sleeps' = [sleeps EXCEPT ![k] = 0]
    /\ UNCHANGED <<tq, consumers, channel, chanOpen, nchan, nonRetryVars>>

try_queue_subscribe(k) == Call(k, "subscribe")

publish_message(k) == Call(k, "publish")

\* while True: try: if self.channel.is_closed: ... (no await up to here)
AttemptBegin(k) ==
    /\ tpc[k] = "top"
    /\ closedStarts' = [closedStarts EXCEPT ![k] = IF channel \in chanOpen THEN @ ELSE @ + 1]
    /\ raised' = [raised EXCEPT ![k] = "none"]
    /\ tpc' = [tpc EXCEPT ![k] = IF IsClosed(channel) THEN "reopen" ELSE "lookup"]
    /\ UNCHANGED <<top, tres, tq, consumers, fails, recreations,
                   sleeps, channel, chanOpen, nchan, nonRetryVars>>

\* self.channel = await self.connection.channel()
Reopen(k, ok) ==
    /\ tpc[k] = "reopen"
    /\ IF ok /\ connection \in connOpen
       THEN /\ nchan' = nchan + 1
            /\ channel' = nchan + 1
            /\ chanOpen' = chanOpen \cup {nchan + 1}
            /\ recreations' = [recreations EXCEPT ![k] = @ + 1]
            /\ tpc' = [tpc EXCEPT ![k] = "lookup"]
            /\ UNCHANGED <<top, tres, fails, raised>>
       ELSE /\ Handle(k, "OtherError")
            /\ UNCHANGED <<nchan, channel, chanOpen, recreations>>
    /\ UNCHANGED <<tq, consumers, closedStarts, sleeps, nonRetryVars>>

\* queue = await self.channel.get_queue(queue_name), or
\* exchange = await self.channel.get_exchange(exchange_name); return exchange
Lookup(k, out) ==
    /\ tpc[k] = "lookup"
    /\ out \in Outcomes(k, channel)
    /\ IF out = "ok"
       THEN /\ tq' = [tq EXCEPT ![k] = channel]
            /\ tpc' = [tpc EXCEPT ![k] = IF top[k] = "subscribe" THEN "consume" ELSE "publish"]
            /\ UNCHANGED <<top, tres, fails, raised, chanOpen>>
       ELSE /\ Handle(k, out)
            /\ chanOpen' = IF out = "ChannelClosed" THEN chanOpen \ {channel} ELSE chanOpen
            /\ UNCHANGED tq
    /\ UNCHANGED <<consumers, closedStarts, recreations, sleeps,
                   channel, nchan, nonRetryVars>>

\* await queue.consume(callback); return
Consume(k, out) ==
    /\ tpc[k] = "consume"
    /\ out \in Outcomes(k, tq[k])
    /\ IF out = "ok"
       THEN /\ consumers' = consumers \cup {<<k, tq[k]>>}
            /\ tpc' = [tpc EXCEPT ![k] = "done"]
            /\ tres' = [tres EXCEPT ![k] = "ok"]
            /\ UNCHANGED top
            /\ UNCHANGED <<fails, raised, chanOpen>>
       ELSE /\ Handle(k, out)
            /\ chanOpen' = IF out = "ChannelClosed" THEN chanOpen \ {tq[k]} ELSE chanOpen
            /\ UNCHANGED consumers
    /\ UNCHANGED <<tq, closedStarts, recreations, sleeps,
                   channel, nchan, nonRetryVars>>

\* await asyncio.sleep(constants.QUEUE_SUBSCRIBE_RETRY_SECONDS)
Sleep(k) ==
    /\ tpc[k] = "sleep"
    /\ sleeps' = [sleeps EXCEPT ![k] = @ + 1]
    /\ tpc' = [tpc EXCEPT ![k] = "top"]
    /\ UNCHANGED <<top, tres, tq, consumers, fails, raised, closedStarts,
                   recreations, channel, chanOpen, nchan, nonRetryVars>>

\* publish_message: await exchange.publish(message, routing_key=""), outside
\* any try block: whatever it raises leaves publish_message.
Publish(k, out) ==
    /\ tpc[k] = "publish"
    /\ out \in {"ChannelClosed", "OtherError"} \cup (IF tq[k] \in chanOpen THEN {"ok"} ELSE {})
    /\ tpc' = [tpc EXCEPT ![k] = "done"]
    /\ tres' = [tres EXCEPT ![k] = out]
    /\ UNCHANGED top
    /\ chanOpen' = IF out = "ChannelClosed" THEN chanOpen \ {tq[k]} ELSE chanOpen
    /\ UNCHANGED <<tq, consumers, fails, raised, closedStarts, recreations,
                   sleeps, channel, nchan, nonRetryVars>>

\* The next step of coroutine k inside its call.
TaskStep(k) ==
    \/ AttemptBegin(k)
    \/ \E ok \in BOOLEAN : Reopen(k, ok)
    \/ \E out \in {"ok", "ChannelClosed", "OtherError"} : Lookup(k, out)
    \/ \E out \in {"ok", "ChannelClosed", "OtherError"} : Consume(k, out)
    \/ Sleep(k)
    \/ \E out \in {"ok", "ChannelClosed", "OtherError"} : Publish(k, out)

RetryNext ==
    \/ \E k \in Tasks : try_queue_subscribe(k)
    \/ \E k \in Tasks : publish_message(k)
    \/ \E k \in Tasks : AttemptBegin(k)
    \/ \E k \in Tasks, ok \in BOOLEAN : Reopen(k, ok)
    \/ \E k \in Tasks, out \in {"ok", "ChannelClosed", "OtherError"} : Lookup(k, out)
    \/ \E k \in Tasks, out \in {"ok", "ChannelClosed", "OtherError"} : Consume(k, out)
    \/ \E k \in Tasks : Sleep(k)
    \/ \E k \in Tasks, out \in {"ok", "ChannelClosed", "OtherError"} : Publish(k, out)



\* ------------------------------------------------ retry protocol properties

\* k's try_queue_subscribe call has returned after two attempts that failed
\* with ChannelClosed and a third that succeeded.
TwiceClosedThenSubscribed(k) ==
    /\ top[k] = "subscribe" /\ tpc[k] = "done"
    /\ tres[k] = "ok" /\ fails[k] = 2

C3_PublishNeverSurfacesChannelClosed ==
    \A k \in Tasks : (top[k] = "publish" /\ tpc[k] = "done") => tres[k] # "ChannelClosed"

\* C4: a failure other than ChannelClosed raised inside the try block of
\* try_queue_subscribe or try_get_exchange ends the call with that failure on
\* the attempt where it occurs: no backoff wait follows it (every wait so far
\* belongs to an earlier caught failure) and no further attempt is made.
C4_OtherFailurePropagates ==
    \A k \in Tasks : raised[k] = "OtherError" =>
        /\ tpc[k] = "done"
        /\ tres[k] = "OtherError"
        /\ sleeps[k] = fails[k]

\* C4 witness: such a failure on a retry, after a caught ChannelClosed.
C4_Witness ==
    \E k \in Tasks : raised[k] = "OtherError" /\ fails[k] >= 1 /\ tpc[k] = "done"


\* The awaits of the retry loop (try_queue_subscribe, try_get_exchange).
TrySteps == {"top", "reopen", "lookup", "consume", "sleep"}

\* k's call has what it was after: the consumer attached, or the exchange
\* handle back in publish_message.
Succeeded(k) ==
    \/ top[k] = "subscribe" /\ tpc[k] = "done" /\ tres[k] = "ok"
                            /\ <<k, tq[k]>> \in consumers
    \/ top[k] = "publish" /\ tpc[k] \in {"publish", "done"} /\ tq[k] # 0

\* Every caught failure has had its one backoff wait, except the one being
\* waited for.
C18_OneWaitPerFailure ==
    \A k \in Tasks :
        sleeps[k] = (IF tpc[k] = "sleep" THEN fails[k] - 1 ELSE fails[k])

\* A ChannelClosed raised in the loop leads to the backoff wait, the wait to
\* another attempt, and the loop is left only with success or with a failure
\* that is not ChannelClosed.
C18_Retries ==
    \A k \in Tasks :
        /\ (tpc[k] \in TrySteps /\ raised'[k] = "ChannelClosed" /\ raised[k] # "ChannelClosed")
              => (tpc'[k] = "sleep" /\ fails'[k] = fails[k] + 1)
        /\ (tpc[k] = "sleep" /\ tpc'[k] # "sleep") => tpc'[k] = "top"
        /\ (tpc[k] \in TrySteps /\ tpc'[k] = "done") => tres'[k] \in {"ok", "OtherError"}

\* C18: the retry loops do not give up on ChannelClosed: each caught failure
\* is followed by exactly one backoff wait and then another attempt, however
\* many have failed, and (the failures being finitely many) the call
\* eventually succeeds, unless a failure of another class ends it.
C18_NeverGivesUp ==
    /\ []C18_OneWaitPerFailure
    /\ [][C18_Retries]_vars
    /\ \A k \in Tasks :
          (tpc[k] = "top") ~> (Succeeded(k) \/ tres[k] = "OtherError")

\* C18 witness: a call succeeded after as many caught failures, each with
\* its wait, as the broker made.
C18_Witness ==
    \E k \in Tasks :
        Succeeded(k) /\ fails[k] = MaxAttempts - 1 /\ sleeps[k] = fails[k]

\* The retry protocol leaves self.connection and the connection object alone.
ConnectionUntouched == connection = 1 /\ connOpen = {1} /\ nconn = 1

\* A call replaces the channel only in an attempt that began with the
\* channel closed, once.
RecreatedWhenClosed ==
    \A k \in Tasks :
        recreations[k] = (IF tpc[k] = "reopen" THEN closedStarts[k] - 1 ELSE closedStarts[k])
        \/ (raised[k] = "OtherError" /\ recreations[k] = closedStarts[k] - 1)

\* At most one channel created for the resource is open.
OneLiveChannel == Cardinality(chanOpen) <= 1

\* C19: channel recreation leaves the connection untouched, happens only at
\* the start of an attempt that finds the channel closed, and in every
\* reachable state at most one channel of the resource is open.
C19_OneLiveChannel ==
    ConnectionUntouched /\ RecreatedWhenClosed /\ OneLiveChannel

\* -------------------------------------------------- local consumer queues

\* The threads that use the local queues (the bus loop thread whose consumer
\* callbacks push, and a thread of the API endpoint that drains).
QThreads == {1, 2}
Names == {"northbound.l1", "southbound.l2"}

\* Resource.__init__: self.consumer_local_queues = {}
QueueInit ==
    /\ consumer_local_queues = [n \in Names |-> 0]
    /\ qcontent = << >>
    /\ qpc = [t \in QThreads |-> "idle"]
    /\ qop = [t \in QThreads |-> "none"]
    /\ qname = [t \in QThreads |-> "northbound.l1"]
    /\ qmsg = [t \in QThreads |-> 0]
    /\ qobj = [t \in QThreads |-> 0]
    /\ qmsgs = [t \in QThreads |-> << >>]
    /\ qret = [t \in QThreads |-> << >>]
    /\ nmsg = 0
    /\ pushed = [n \in Names |-> << >>]
    /\ returned = [n \in Names |-> {}]
    /\ since = [n \in Names |-> << >>]
    /\ qexp = [t \in QThreads |-> << >>]
    /\ snaps = [t \in QThreads |-> {}]
    /\ qatomic = [t \in QThreads |-> TRUE]

SeqRange(q) == {q[i] : i \in 1..Len(q)}

\* The messages buffered under name n: those of the Queue object the
\* dictionary holds for n.
Buffered(n) ==
    IF consumer_local_queues[n] = 0 THEN << >> ELSE qcontent[consumer_local_queues[n]]

\* The contents seen during the drains in progress, after a step (of the
\* local queues: nothing else changes).
Observe ==
    /\ UNCHANGED <<busVars, retryVars, pureVars>>
    /\ snaps' = [t \in QThreads |->
                    IF qop'[t] = "drain" /\ qpc'[t] # "idle"
                    THEN snaps[t] \cup
                         {IF qobj'[t] # 0 THEN qcontent'[qobj'[t]]
                          ELSE IF consumer_local_queues'[qname'[t]] = 0 THEN << >>
                          ELSE qcontent'[consumer_local_queues'[qname'[t]]]}
                    ELSE {}]

\* The method returns: its arguments and locals are gone.
Forget(t) ==
    /\ qname' = [qname EXCEPT ![t] = "northbound.l1"]
    /\ qmsg' = [qmsg EXCEPT ![t] = 0]
    /\ qobj' = [qobj EXCEPT ![t] = 0]
    /\ qmsgs' = [qmsgs EXCEPT ![t] = << >>]

\* push_message_to_consumer_local_queue(queue_name, message) is called.
push_message_to_consumer_local_queue(t, n) ==
    /\ qpc[t] = "idle" /\ nmsg < MaxMsgs
    /\ nmsg' = nmsg + 1
    /\ qop' = [qop EXCEPT ![t] = "push"]
    /\ qname' = [qname EXCEPT ![t] = n]
    /\ qmsg' = [qmsg EXCEPT ![t] = nmsg + 1]
    /\ qobj' = [qobj EXCEPT ![t] = 0]
    /\ qpc' = [qpc EXCEPT ![t] = "check"]
    /\ UNCHANGED <<consumer_local_queues, qcontent, qmsgs, qret, pushed, returned,
                   since, qexp, qatomic>>
    /\ Observe

\* get_messages_from_consumer_local_queue(queue_name) is called: messages = []
get_messages_from_consumer_local_queue(t, n) ==
    /\ qpc[t] = "idle"
    /\ qop' = [qop EXCEPT ![t] = "drain"]
    /\ qname' = [qname EXCEPT ![t] = n]
    /\ qmsgs' = [qmsgs EXCEPT ![t] = << >>]
    /\ qobj' = [qobj EXCEPT ![t] = 0]
    /\ qpc' = [qpc EXCEPT ![t] = "check"]
    /\ qexp' = [qexp EXCEPT ![t] = since[n]]
    /\ since' = [since EXCEPT ![n] = << >>]
    /\ UNCHANGED <<consumer_local_queues, qcontent, qmsg, qret, nmsg, pushed,
                   returned, qatomic>>
    /\ Observe

\* get_consumer_local_queue: if queue_name not in self.consumer_local_queues
QueueCheck(t) ==
    /\ qpc[t] = "check"
    /\ qpc' = [qpc EXCEPT ![t] =
                  IF consumer_local_queues[qname[t]] = 0 THEN "create" ELSE "return"]
    /\ UNCHANGED <<consumer_local_queues, qcontent, qop, qname, qmsg, qobj, qmsgs,
                   qret, nmsg, pushed, returned, since, qexp, qatomic>>
    /\ Observe

\* get_consumer_local_queue: self.consumer_local_queues[queue_name] = Queue()
QueueCreate(t) ==
    /\ qpc[t] = "create"
    /\ qcontent' = Append(qcontent, << >>)
    /\ consumer_local_queues' =
           [consumer_local_queues EXCEPT ![qname[t]] = Len(qcontent) + 1]
    /\ qpc' = [qpc EXCEPT ![t] = "return"]
    /\ UNCHANGED <<qop, qname, qmsg, qobj, qmsgs, qret, nmsg, pushed, returned,
                   since, qexp, qatomic>>
    /\ Observe

\* get_consumer_local_queue: return self.consumer_local_queues[queue_name]
QueueReturn(t) ==
    /\ qpc[t] = "return"
    /\ qobj' = [qobj EXCEPT ![t] = consumer_local_queues[qname[t]]]
    /\ qpc' = [qpc EXCEPT ![t] = IF qop[t] = "push" THEN "put" ELSE "empty"]
    /\ UNCHANGED <<consumer_local_queues, qcontent, qop, qname, qmsg, qmsgs,
                   qret, nmsg, pushed, returned, since, qexp, qatomic>>
    /\ Observe

\* The list after messages.append(m), with m put at the front instead.
PrependTo(list, m) == <<m>> \o list

\* messages.append(m)
AppendTo(list, m) == Append(list, m)

\* push_message_to_consumer_local_queue: queue.put(message), and return
QueuePut(t) ==
    /\ qpc[t] = "put"
    /\ qcontent' = [qcontent EXCEPT ![qobj[t]] = Append(@, qmsg[t])]
    /\ pushed' = [pushed EXCEPT ![qname[t]] = Append(@, qmsg[t])]
    /\ since' = [since EXCEPT ![qname[t]] = Append(@, qmsg[t])]
    /\ qpc' = [qpc EXCEPT ![t] = "idle"]
    /\ Forget(t)
    /\ UNCHANGED <<consumer_local_queues, qop, qret, nmsg, returned, qexp, qatomic>>
    /\ Observe

\* get_messages_from_consumer_local_queue: while not queue.empty(): ...
\* return messages
QueueEmpty(t) ==
    /\ qpc[t] = "empty"
    /\ IF qcontent[qobj[t]] = << >>
       THEN /\ qret' = [qret EXCEPT ![t] = qmsgs[t]]
            /\ returned' = [returned EXCEPT ![qname[t]] = @ \cup SeqRange(qmsgs[t])]
            /\ qatomic' = [qatomic EXCEPT ![t] = qmsgs[t] \in snaps[t]]
            /\ qpc' = [qpc EXCEPT ![t] = "idle"]
            /\ Forget(t)
       ELSE /\ qpc' = [qpc EXCEPT ![t] = "get"]
            /\ UNCHANGED <<qret, returned, qatomic, qname, qmsg, qobj, qmsgs>>
    /\ UNCHANGED <<consumer_local_queues, qcontent, qop, nmsg, pushed, since, qexp>>
    /\ Observe

\* get_messages_from_consumer_local_queue: messages.append(queue.get());
\* Queue.get() waits while the queue is empty.
QueueGet(t) ==
    /\ qpc[t] = "get"
    /\ qcontent[qobj[t]] # << >>
    /\ qmsgs' = [qmsgs EXCEPT ![t] = AppendTo(@, Head(qcontent[qobj[t]]))]
    /\ qcontent' = [qcontent EXCEPT ![qobj[t]] = Tail(@)]
    /\ qpc' = [qpc EXCEPT ![t] = "empty"]
    /\ UNCHANGED <<consumer_local_queues, qop, qname, qmsg, qobj, qret, nmsg,
                   pushed, returned, since, qexp, qatomic>>
    /\ Observe

\* The steps of the threads in T.
QueueSteps(T) ==
    \/ \E t \in T, n \in Names : push_message_to_consumer_local_queue(t, n)
    \/ \E t \in T, n \in Names : get_messages_from_consumer_local_queue(t, n)
    \/ \E t \in T : QueueCheck(t)
    \/ \E t \in T : QueueCreate(t)
    \/ \E t \in T : QueueReturn(t)
    \/ \E t \in T : QueuePut(t)
    \/ \E t \in T : QueueEmpty(t)
    \/ \E t \in T : QueueGet(t)

\* Two threads use the queues concurrently.
QueueNext == QueueSteps(QThreads)

\* One thread uses the queues: no concurrent access.
SeqNext == QueueSteps({1})


\* --------------------------------------------- local consumer queue properties

\* C5: with one thread only, a drain returns exactly the messages pushed on
\* its name since the previous drain of that name began, in push order: all N
\* of them after N pushes, and none when it immediately follows another drain.
C5_DrainReturnsPushedInOrder ==
    \A t \in QThreads : (qop[t] = "drain" /\ qpc[t] = "idle") => qret[t] = qexp[t]

\* C5 witness: a drain has returned two messages.
C5_Witness ==
    \E t \in QThreads : qop[t] = "drain" /\ qpc[t] = "idle" /\ Len(qret[t]) = 2

\* Threads inside a call on the same name hold the same Queue object.
SameQueueObject ==
    \A t, u \in QThreads :
        (qobj[t] # 0 /\ qobj[u] # 0 /\ qname[t] = qname[u]) => qobj[t] = qobj[u]

\* Message m, pushed on name n, has been returned by a drain of n or can
\* still be: it is buffered under n, or in the hands of a drain in progress.
Retrievable(n, m) ==
    \/ m \in returned[n]
    \/ m \in SeqRange(Buffered(n))
    \/ \E t \in QThreads :
          /\ qop[t] = "drain" /\ qpc[t] # "idle" /\ qname[t] = n
          /\ \/ m \in SeqRange(qmsgs[t])
             \/ qobj[t] # 0 /\ m \in SeqRange(qcontent[qobj[t]])

NoMessageDropped ==
    \A n \in Names : \A i \in 1..Len(pushed[n]) : Retrievable(n, pushed[n][i])

\* C6: get_consumer_local_queue and push_message_to_consumer_local_queue are
\* thread-safe: concurrent calls on one name use one Queue object, and no
\* pushed message is dropped.
C6_QueueCreationThreadSafe == SameQueueObject /\ NoMessageDropped

\* No drain waits in Queue.get() on an empty queue.
DrainNeverWaits ==
    \A t \in QThreads : ~(qpc[t] = "get" /\ qcontent[qobj[t]] = << >>)

\* Every drain returned the content the queue had at one instant of the call.
DrainIsSnapshot == \A t \in QThreads : qatomic[t]

\* C7: get_messages_from_consumer_local_queue is atomic and non-blocking
\* under concurrent pushes and drains.
C7_DrainAtomicNonBlocking == DrainNeverWaits /\ DrainIsSnapshot

\* -------------------------------------------------------- specifications

\* ------------------------------------------------------- naming scheme

\* Python's None, and a str value: what a naming method returns.
None == << >>
Str(s) == <<s>>
\* The truth value of an optional str: None and "" are false.
Truthy(v) == v # None /\ v[1] # ""

\* ace.constants.LAYER_ORIENTATIONS
LAYER_ORIENTATIONS == <<"southbound", "northbound">>

\* direction in constants.LAYER_ORIENTATIONS
InOrientations(direction) ==
    \E i \in 1..Len(LAYER_ORIENTATIONS) : LAYER_ORIENTATIONS[i] = direction

\* build_queue_name(self, direction, layer), layer a str
build_queue_name(direction, layer) ==
    IF layer # "" /\ InOrientations(direction)
    THEN Str(direction \o "." \o layer)
    ELSE None

\* build_exchange_name(self, direction, layer)
build_exchange_name(direction, layer) ==
    LET queue == build_queue_name(direction, layer)
    IN  IF Truthy(queue) THEN Str("exchange." \o queue[1]) ELSE None

\* is_existant_layer_queue with the first index alone excluded, in either
\* direction.
IsExistantButFirst(orientation, idx) == idx # 0

\* is_existant_layer_queue(self, orientation, idx); idx counts from 0
is_existant_layer_queue(orientation, idx) ==
    IF \/ (orientation = "southbound" /\ idx = 0)
       \/ (orientation = "northbound" /\ idx = Len(layers) - 1)
    THEN FALSE
    ELSE TRUE

\* The inner loop of build_all_layer_queue_names with every index kept.
RECURSIVE InnerLoopUnfiltered(_, _, _)
InnerLoopUnfiltered(orientation, idx, queue_names) ==
    IF idx >= Len(layers) THEN queue_names
    ELSE InnerLoopUnfiltered(orientation, idx + 1,
             Append(queue_names, build_queue_name(orientation, layers[idx + 1])))

\* for idx, layer in enumerate(self.settings.layers): from index idx on
RECURSIVE InnerLoop(_, _, _)
InnerLoop(orientation, idx, queue_names) ==
    IF idx >= Len(layers) THEN queue_names
    ELSE InnerLoop(orientation, idx + 1,
             IF is_existant_layer_queue(orientation, idx)
             THEN Append(queue_names, build_queue_name(orientation, layers[idx + 1]))
             ELSE queue_names)

\* for orientation in constants.LAYER_ORIENTATIONS: from the i-th on
RECURSIVE OuterLoop(_, _)
OuterLoop(i, queue_names) ==
    IF i > Len(LAYER_ORIENTATIONS) THEN queue_names
    ELSE OuterLoop(i + 1, InnerLoop(LAYER_ORIENTATIONS[i], 0, queue_names))

\* build_all_layer_queue_names(self)
build_all_layer_queue_names == OuterLoop(1, << >>)

\* Layer names a settings object may list ("" is a str like any other), and
\* the directions a caller may pass (one of them unrecognized).
LayerNames == {"", "L0", "L1", "L2"}
Directions == {"southbound", "northbound", "eastbound"}

\* Non-empty layer lists of at most MaxLayers names.
LayerLists == UNION {[1..n -> LayerNames] : n \in 1..MaxLayers}

\* No naming method has been called; layers as the settings give them.
NameIdle ==
    /\ nop = "none" /\ ndirection = "none" /\ nidx = -1
    /\ nlayer = None /\ nresult = None

\* The settings of the resource the other parts of the model run.
NameInit == layers = <<"L0", "L1", "L2">> /\ NameIdle

\* A call is_existant_layer_queue(direction, idx), idx an index of layers.
IsExistantLayerQueue(direction, idx) ==
    /\ idx < Len(layers)
    /\ nop' = "is_existant_layer_queue"
    /\ ndirection' = direction /\ nidx' = idx /\ nlayer' = None
    /\ nresult' = is_existant_layer_queue(direction, idx)
    /\ UNCHANGED <<layers, msgVars, busVars, retryVars, queueVars>>

\* A call build_queue_name(direction, layers[idx]).
BuildQueueName(direction, idx) ==
    /\ idx < Len(layers)
    /\ nop' = "build_queue_name"
    /\ ndirection' = direction /\ nidx' = idx /\ nlayer' = Str(layers[idx + 1])
    /\ nresult' = build_queue_name(direction, layers[idx + 1])
    /\ UNCHANGED <<layers, msgVars, busVars, retryVars, queueVars>>

\* A call build_exchange_name(direction, layers[idx]).
BuildExchangeName(direction, idx) ==
    /\ idx < Len(layers)
    /\ nop' = "build_exchange_name"
    /\ ndirection' = direction /\ nidx' = idx /\ nlayer' = Str(layers[idx + 1])
    /\ nresult' = build_exchange_name(direction, layers[idx + 1])
    /\ UNCHANGED <<layers, msgVars, busVars, retryVars, queueVars>>

\* A call build_all_layer_queue_names().
BuildAllLayerQueueNames ==
    /\ nop' = "build_all_layer_queue_names"
    /\ ndirection' = "none" /\ nidx' = -1 /\ nlayer' = None
    /\ nresult' = build_all_layer_queue_names
    /\ UNCHANGED <<layers, msgVars, busVars, retryVars, queueVars>>

NameNext ==
    \/ \E d \in Directions, i \in 0..(MaxLayers - 1) : IsExistantLayerQueue(d, i)
    \/ \E d \in Directions, i \in 0..(MaxLayers - 1) : BuildQueueName(d, i)
    \/ \E d \in Directions, i \in 0..(MaxLayers - 1) : BuildExchangeName(d, i)
    \/ BuildAllLayerQueueNames


\* ----------------------------------------------------- message envelope

\* self.settings.name
SettingsName == "layer_1"

\* A dict is the sequence of its <<key, value>> items in insertion order.
HasKey(d, k) == \E i \in 1..Len(d) : d[i][1] = k

\* d.setdefault(k, v): an existing key keeps its value.
DictSetDefault(d, k, v) ==
    IF HasKey(d, k) THEN d ELSE Append(d, <<k, v>>)

\* d[k] = v
DictSet(d, k, v) ==
    IF HasKey(d, k)
    THEN [i \in 1..Len(d) |-> IF d[i][1] = k THEN <<k, v>> ELSE d[i]]
    ELSE Append(d, <<k, v>>)

\* The members of the JSON object text, from item i on.
RECURSIVE Members(_, _)
Members(d, i) ==
    IF i > Len(d) THEN << >>
    ELSE (IF i > 1 THEN <<",">> ELSE << >>)
         \o <<d[i][1], ":", d[i][2]>> \o Members(d, i + 1)

\* json.dumps(d).encode(): the text of the JSON object, token by token
json_dumps(d) == <<"{">> \o Members(d, 1) \o <<"}">>

\* build_message(self, message=None, message_type='data'); message is None
\* or Str(dict)
build_message(message, message_type) ==
    LET m0 == IF message = None \/ message[1] = << >> THEN << >> ELSE message[1]
        m1 == DictSet(m0, "type", message_type)
        m2 == DictSet(m1, "resource", SettingsName)
    IN  json_dumps(m2)

\* The payloads a caller may pass: None, or a dict of at most MaxFields keys,
\* "type" and "resource" among the possible ones.
FieldKeys == {"type", "resource", "body", "id"}
FieldValues == {"a", "layer_1"}
MessageTypes == {"data", "control"}
Dicts ==
    {d \in UNION {[1..n -> FieldKeys \X FieldValues] : n \in 0..MaxFields} :
        \A i, j \in 1..Len(d) : d[i][1] = d[j][1] => i = j}
Payloads == {None} \cup {Str(d) : d \in Dicts}

\* build_message has not been called.
MessageInit ==
    mop = "none" /\ mpayload = None /\ mtype = "none" /\ mresult = << >>

\* A call build_message(message, message_type).
BuildMessage(message, message_type) ==
    /\ mop' = "build_message"
    /\ mpayload' = message
    /\ mtype' = message_type
    /\ mresult' = build_message(message, message_type)
    /\ UNCHANGED <<nameVars, busVars, retryVars, queueVars>>

\* A call build_message(message): message_type takes its default.
BuildMessageDefault(message) ==
    /\ mop' = "build_message"
    /\ mpayload' = message
    /\ mtype' = "default"
    /\ mresult' = build_message(message, "data")
    /\ UNCHANGED <<nameVars, busVars, retryVars, queueVars>>

MessageNext ==
    \/ \E m \in Payloads, ty \in MessageTypes : BuildMessage(m, ty)
    \/ \E m \in Payloads : BuildMessageDefault(m)


\* ------------------------------------------------ naming scheme properties

\* (direction, idx) asks for a queue off the edge of the layer list.
Boundary(direction, idx) ==
    \/ direction = "southbound" /\ idx = 0
    \/ direction = "northbound" /\ idx = Len(layers) - 1

\* The last call was given a recognized direction and a layer with a name.
ValidPair ==
    /\ ndirection \in {"southbound", "northbound"}
    /\ nidx \in 0..(Len(layers) - 1)
    /\ layers[nidx + 1] # ""

\* C14: build_queue_name and build_exchange_name, asked for a boundary that
\* does not exist (southbound for the first layer, northbound for the last),
\* return None.
C14_BoundaryNameIsNone ==
    (nop \in {"build_queue_name", "build_exchange_name"} /\ Boundary(ndirection, nidx))
        => nresult = None

\* C15: is_existant_layer_queue is false exactly at the two boundaries, and
\* where it is true (for a recognized direction and a named layer)
\* build_queue_name returns "<direction>.<layer>" and build_exchange_name
\* returns "exchange." followed by that queue name.
C15_ExistingQueuesAreNamed ==
    /\ (nop = "is_existant_layer_queue" /\ ndirection \in {"southbound", "northbound"})
          => (nresult = FALSE <=> Boundary(ndirection, nidx))
    /\ (nop = "build_queue_name" /\ ValidPair /\ ~Boundary(ndirection, nidx))
          => nresult = Str(ndirection \o "." \o layers[nidx + 1])
    /\ (nop = "build_exchange_name" /\ ValidPair /\ ~Boundary(ndirection, nidx))
          => /\ nresult = Str("exchange." \o ndirection \o "." \o layers[nidx + 1])
             /\ nresult = Str("exchange." \o build_queue_name(ndirection, nlayer[1])[1])

\* C15 witness: an exchange name was built for the middle layer of three.
C15_Witness ==
    /\ nop = "build_exchange_name" /\ Len(layers) = 3 /\ nidx = 1
    /\ nresult = Str("exchange.northbound.L1")

\* The layers are distinct and every one has a name.
DistinctNamed ==
    /\ \A i \in 1..Len(layers) : layers[i] # ""
    /\ \A i, j \in 1..Len(layers) : layers[i] = layers[j] => i = j

\* C16: build_all_layer_queue_names returns the southbound names of the
\* layers after the first, in index order, then the northbound names of the
\* layers before the last, in index order; for [L0, L1, L2] that is
\* southbound.L1, southbound.L2, northbound.L0, northbound.L1; for n distinct
\* named layers it is 2*(n-1) names, none None and none repeated.
C16_AllNamesInOrder ==
    nop = "build_all_layer_queue_names" =>
        LET n == Len(layers) IN
        /\ Len(nresult) = 2 * (n - 1)
        /\ \A i \in 1..(n - 1) :
              /\ nresult[i] = build_queue_name("southbound", layers[i + 1])
              /\ nresult[n - 1 + i] = build_queue_name("northbound", layers[i])
        /\ (layers = <<"L0", "L1", "L2">> =>
              nresult = << Str("southbound.L1"), Str("southbound.L2"),
                           Str("northbound.L0"), Str("northbound.L1") >>)
        /\ (DistinctNamed =>
              /\ \A i \in 1..Len(nresult) : nresult[i] # None
              /\ \A i, j \in 1..Len(nresult) : nresult[i] = nresult[j] => i = j)

\* C16 witness: the names of three distinct layers were listed.
C16_Witness ==
    /\ nop = "build_all_layer_queue_names" /\ DistinctNamed
    /\ Len(layers) = 3 /\ Len(nresult) = 4


\* --------------------------------------------- message envelope properties

\* Reading the bytes back (json.loads): the number of members, the keys, and
\* the value of a key (the last member with that key).
MemberCount(b) == IF Len(b) <= 2 THEN 0 ELSE (Len(b) - 1) \div 4
MemberKey(b, i) == b[4 * (i - 1) + 2]
MemberValue(b, i) == b[4 * (i - 1) + 4]
EnvelopeKeys(b) == {MemberKey(b, i) : i \in 1..MemberCount(b)}
EnvelopeValue(b, k) ==
    LET last == CHOOSE i \in 1..MemberCount(b) :
                    /\ MemberKey(b, i) = k
                    /\ \A j \in 1..MemberCount(b) : MemberKey(b, j) = k => j <= i
    IN  MemberValue(b, last)

\* The dict the caller passed (none: the empty one).
GivenPayload == IF mpayload = None THEN << >> ELSE mpayload[1]

\* C17: the envelope build_message returns has type equal to the message type
\* given ("data" when none is given) and resource equal to settings.name,
\* whatever the payload had under those keys, and has every other key of the
\* payload with the payload's value, and no other key.
C17_EnvelopeFields ==
    mop = "build_message" =>
        /\ EnvelopeKeys(mresult) =
              {GivenPayload[i][1] : i \in 1..Len(GivenPayload)} \cup {"type", "resource"}
        /\ MemberCount(mresult) = Cardinality(EnvelopeKeys(mresult))
        /\ EnvelopeValue(mresult, "type") = (IF mtype = "default" THEN "data" ELSE mtype)
        /\ EnvelopeValue(mresult, "resource") = SettingsName
        /\ \A i \in 1..Len(GivenPayload) :
              GivenPayload[i][1] \notin {"type", "resource"} =>
                  EnvelopeValue(mresult, GivenPayload[i][1]) = GivenPayload[i][2]

\* C17 witness: a payload with a type of its own and another key went in,
\* the envelope has the given message type and the other key's value.
C17_Witness ==
    /\ mop = "build_message" /\ mtype = "control"
    /\ mpayload = Str(<< <<"type", "a">>, <<"body", "a">> >>)
    /\ EnvelopeValue(mresult, "type") = "control"
    /\ EnvelopeValue(mresult, "body") = "a"


Init == BusInit /\ RetryInit /\ QueueInit /\ NameInit /\ MessageInit
Next == BusNext
Spec == Init /\ [][Next]_vars

InitQueue == BusInit /\ RetryInit /\ QueueInit /\ NameInit /\ MessageInit
SpecQueue == InitQueue /\ [][QueueNext]_vars
SpecSeq == InitQueue /\ [][SeqNext]_vars

InitRetry == ConnectedInit /\ RetryInit /\ QueueInit /\ NameInit /\ MessageInit

SpecRetry == InitRetry /\ [][RetryNext]_vars

\* One coroutine subscribes (try_queue_subscribe) while another publishes
\* (try_get_exchange), on the shared channel.
PairNext ==
    \/ try_queue_subscribe(1)
    \/ publish_message(2)
    \/ \E k \in Tasks : AttemptBegin(k)
    \/ \E k \in Tasks, ok \in BOOLEAN : Reopen(k, ok)
    \/ \E k \in Tasks, out \in {"ok", "ChannelClosed", "OtherError"} : Lookup(k, out)
    \/ \E k \in Tasks, out \in {"ok", "ChannelClosed", "OtherError"} : Consume(k, out)
    \/ \E k \in Tasks : Sleep(k)
    \/ \E k \in Tasks, out \in {"ok", "ChannelClosed", "OtherError"} : Publish(k, out)

\* The bus loop runs every coroutine that can go on, and every await of the
\* retry protocol ends (the broker answers, the sleep elapses).
FairRetry ==
    InitRetry /\ [][PairNext]_vars /\ \A k \in Tasks : WF_vars(TaskStep(k))

InitName == BusInit /\ RetryInit /\ QueueInit /\ layers \in LayerLists /\ NameIdle /\ MessageInit
SpecName == InitName /\ [][NameNext]_vars

SpecMessage == Init /\ [][MessageNext]_vars

====
